---- MODULE Spec2Model ----
(***************************************************************************)
(* A model of FabricFusion (src/app.py): the image loader, the print       *)
(* transformer (resize_print, tile_print), the blend engine (blend_images) *)
(* and the orchestrator (generate_fusion), together with the GUI handlers  *)
(* that call them.                                                         *)
(*                                                                         *)
(* blend_images computes in IEEE-754 binary64 (numpy float64) and converts *)
(* back to 8 bits by truncation, so the arithmetic is modelled bit-exactly:*)
(* a float is a 53-bit significand held as a multi-limb natural number and *)
(* a binary exponent, and every operation rounds to nearest, ties to even. *)
(***************************************************************************)
EXTENDS Integers, Sequences, FiniteSets, TLC

(***************************************************************************)
(* Natural numbers below 2^112: tuples of NumLimbs limbs in 0..LimbBase-1, *)
(* least significant first.  They carry the exact significands of float64  *)
(* products, quotients and sums before these are rounded.                  *)
(***************************************************************************)
LimbBits == 14

LimbBase == 2^LimbBits

NumLimbs == 8

Limbs == 1..NumLimbs

Max(a, b) == IF a >= b THEN a ELSE b

Min(a, b) == IF a <= b THEN a ELSE b

BZero == [i \in Limbs |-> 0]

BOne == [i \in Limbs |-> IF i = 1 THEN 1 ELSE 0]

Limb(a, i) == IF i >= 1 /\ i <= NumLimbs THEN a[i] ELSE 0

\* One step of carry propagation.  st is <<the limbs settled so far, the
\* sum of the column being settled>>: the column leaves its limb and carries
\* into column i.
CarryStep(cols, st, i) ==
  <<Append(st[1], st[2] % LimbBase), cols[i] + (st[2] \div LimbBase)>>

CarryEnd(st) == Append(st[1], st[2] % LimbBase)

\* Column sums (each possibly negative or >= LimbBase) to limbs: the carries
\* are propagated upwards; \div rounds down, so a borrow is a carry of -1.
Carry(cols) ==
  CarryEnd(CarryStep(cols, CarryStep(cols, CarryStep(cols, CarryStep(cols,
    CarryStep(cols, CarryStep(cols, CarryStep(cols, <<<<>>, cols[1]>>,
    2), 3), 4), 5), 6), 7), 8))

\* n < 2^31
BFromNat(n) ==
  [i \in Limbs |->
     IF i = 1 THEN n % LimbBase
     ELSE IF i = 2 THEN (n \div LimbBase) % LimbBase
     ELSE IF i = 3 THEN n \div (LimbBase * LimbBase)
     ELSE 0]

\* a < 2^31
BToNat(a) == a[1] + LimbBase * a[2] + LimbBase * LimbBase * a[3]

BAdd(a, b) == Carry([i \in Limbs |-> a[i] + b[i]])

\* a - b for a >= b
BSub(a, b) == Carry([i \in Limbs |-> a[i] - b[i]])

\* -1, 0, 1 as a < b, a = b, a > b
BCmp(a, b) ==
  IF a = b THEN 0
  ELSE IF \E i \in Limbs : a[i] > b[i] /\ \A j \in Limbs : j > i => a[j] = b[j]
  THEN 1
  ELSE -1

\* a * b: the columns of the schoolbook product (at most four limbs of each
\* factor are not zero, so a column sum stays below 2^31).
BMul(a, b) ==
  Carry([k \in Limbs |->
           a[1] * Limb(b, k) + a[2] * Limb(b, k - 1)
             + a[3] * Limb(b, k - 2) + a[4] * Limb(b, k - 3)])

\* a * 2^n
BShl(a, n) ==
  LET q == n \div LimbBits
      f == 2^(n % LimbBits)
  IN  Carry([i \in Limbs |-> Limb(a, i - q) * f])

\* floor(a / 2^n)
BShr(a, n) ==
  LET q == n \div LimbBits
      r == n % LimbBits
  IN  [i \in Limbs |->
         (Limb(a, i + q) \div 2^r)
           + (Limb(a, i + q + 1) % 2^r) * 2^(LimbBits - r)]

\* One step of short division, from the most significant limb down.  st is
\* <<the quotient limbs found so far, the running remainder>>.
DivStep(a, d, st, i) ==
  <<<<(st[2] * LimbBase + a[i]) \div d>> \o st[1],
    (st[2] * LimbBase + a[i]) % d>>

\* quotient and remainder of a by d, 1 <= d <= LimbBase
BDivSmall(a, d) ==
  DivStep(a, d, DivStep(a, d, DivStep(a, d, DivStep(a, d, DivStep(a, d,
    DivStep(a, d, DivStep(a, d, DivStep(a, d, <<<<>>, 0>>,
    8), 7), 6), 5), 4), 3), 2), 1)

\* The number of bits of n, 0 <= n < LimbBase
NatBitLen(n) ==
  IF n < 2^7
  THEN (IF n < 2^3
        THEN (IF n < 2 THEN n ELSE IF n < 4 THEN 2 ELSE 3)
        ELSE (IF n < 2^5 THEN (IF n < 2^4 THEN 4 ELSE 5)
              ELSE (IF n < 2^6 THEN 6 ELSE 7)))
  ELSE (IF n < 2^10
        THEN (IF n < 2^8 THEN 8 ELSE IF n < 2^9 THEN 9 ELSE 10)
        ELSE (IF n < 2^12 THEN (IF n < 2^11 THEN 11 ELSE 12)
              ELSE (IF n < 2^13 THEN 13 ELSE 14)))

\* The index of the most significant limb that is not zero (0 for zero)
TopLimb(a) ==
  IF a[8] # 0 THEN 8 ELSE IF a[7] # 0 THEN 7 ELSE IF a[6] # 0 THEN 6
  ELSE IF a[5] # 0 THEN 5 ELSE IF a[4] # 0 THEN 4 ELSE IF a[3] # 0 THEN 3
  ELSE IF a[2] # 0 THEN 2 ELSE IF a[1] # 0 THEN 1 ELSE 0

BBitLen(a) ==
  LET Upto(top) ==
        IF top = 0 THEN 0 ELSE (top - 1) * LimbBits + NatBitLen(a[top])
  IN  Upto(TopLimb(a))

BIsOdd(a) == a[1] % 2 = 1

\* Bit n of a (bit 0 is the least significant)
BBit(a, n) == (a[(n \div LimbBits) + 1] \div 2^(n % LimbBits)) % 2

\* Whether the bits of a below bit n are all zero
BLowZero(a, n) ==
  /\ \A i \in 1..(n \div LimbBits) : a[i] = 0
  /\ a[(n \div LimbBits) + 1] % 2^(n % LimbBits) = 0

(***************************************************************************)
(* float64: <<m, e>> is the value m * 2^e, m = 0 or 2^52 <= m < 2^53.     *)
(* Only values >= 0 occur in blend_images for 0 <= opacity <= 1; the       *)
(* exponents stay far inside the normal range, so neither overflow nor     *)
(* subnormals arise.                                                       *)
(***************************************************************************)
MantBits == 53

FZero == <<BZero, 0>>

\* The float nearest to m * 2^e (plus a positive amount below one unit of m
\* when sticky): round to nearest, ties to even.  With s bits to drop, bit
\* s - 1 of m is the first dropped bit; m rounds up when that bit is set and
\* either a lower bit (or sticky) is, or the kept part is odd.
FRound(m, e, sticky) ==
  LET Renormalised(q1, s) ==
        IF BBit(q1, MantBits) = 1
        THEN <<BShr(q1, 1), e + s + 1>>
        ELSE <<q1, e + s>>
      Rounded(q, s) ==
        Renormalised(IF /\ BBit(m, s - 1) = 1
                        /\ (~BLowZero(m, s - 1) \/ sticky \/ BIsOdd(q))
                     THEN BAdd(q, BOne)
                     ELSE q,
                     s)
      OfLength(len) ==
        IF len = 0 THEN FZero
        ELSE IF len = MantBits THEN <<m, e>>
        ELSE IF len < MantBits
        THEN <<BShl(m, MantBits - len), e - (MantBits - len)>>
        ELSE Rounded(BShr(m, len - MantBits), len - MantBits)
  IN  OfLength(BBitLen(m))

FFromNat(n) == FRound(BFromNat(n), 0, FALSE)

\* n / d for naturals n < 2^31 and 1 <= d <= LimbBase, correctly rounded.
FDivNat(n, d) ==
  LET Quotient(qr) == FRound(qr[1], 0 - 5 * LimbBits, qr[2] # 0)
  IN  Quotient(BDivSmall(BShl(BFromNat(n), 5 * LimbBits), d))

FMul(x, y) ==
  IF x[1] = BZero \/ y[1] = BZero THEN FZero
  ELSE FRound(BMul(x[1], y[1]), x[2] + y[2], FALSE)

\* An operand more than MantBits + 3 binary places below the other one does
\* not change the rounded sum or difference.
Negligible(small, big) ==
  small[1] = BZero \/ (big[1] # BZero /\ big[2] - small[2] > MantBits + 3)

FAdd(x, y) ==
  IF Negligible(x, y) THEN y
  ELSE IF Negligible(y, x) THEN x
  ELSE LET e == Min(x[2], y[2])
       IN  FRound(BAdd(BShl(x[1], x[2] - e), BShl(y[1], y[2] - e)), e, FALSE)

\* -1, 0, 1 as x < y, x = y, x > y
FCmp(x, y) ==
  IF x[1] = BZero /\ y[1] = BZero THEN 0
  ELSE IF x[1] = BZero THEN -1
  ELSE IF y[1] = BZero THEN 1
  ELSE IF x[2] < y[2] THEN -1
  ELSE IF x[2] > y[2] THEN 1
  ELSE BCmp(x[1], y[1])

\* x - y for x >= y
FSub(x, y) ==
  IF Negligible(y, x) THEN x
  ELSE LET e == Min(x[2], y[2])
       IN  FRound(BSub(BShl(x[1], x[2] - e), BShl(y[1], y[2] - e)), e, FALSE)

\* int(x): truncation toward zero of a float 0 <= x < 2^31
FTrunc(x) ==
  IF x[1] = BZero THEN 0
  ELSE IF x[2] >= 0 THEN BToNat(BShl(x[1], x[2]))
  ELSE BToNat(BShr(x[1], 0 - x[2]))

\* np.ceil(x) of a float >= 0, as an integer
FCeil(x) ==
  LET Up(t) == IF FCmp(FFromNat(t), x) = 0 THEN t ELSE t + 1
  IN  Up(FTrunc(x))

(***************************************************************************)
(* numpy arrays.  An array value is its shape (<<h, w>> or <<h, w, c>>)    *)
(* and its pixels, px[<<y, x>>] being the sequence of channel values.  The *)
(* heap maps a buffer id to the array stored there; a Python variable      *)
(* holds a reference: a buffer id and the shape of the view it has of the  *)
(* buffer, anchored at the buffer's origin (the only slicing the program   *)
(* does is canvas[:h, :w]).                                                *)
(***************************************************************************)
MaxChan == 255

Pixels(shape) == (0..(shape[1] - 1)) \X (0..(shape[2] - 1))

NoRef == [buf |-> 0, shape |-> <<>>]

EmptyHeap == [i \in {} |-> 0]

\* The id of the next buffer allocated: the smallest one not in use.
FreshBuf(heap) ==
  CHOOSE i \in 1..(Cardinality(DOMAIN heap) + 1) :
    /\ i \notin DOMAIN heap
    /\ \A j \in 1..(i - 1) : j \in DOMAIN heap

\* A new buffer holding arr, and the reference to it.
Alloc(heap, arr) ==
  LET At(id) ==
        [heap |-> [i \in DOMAIN heap \cup {id} |->
                     IF i = id THEN arr ELSE heap[i]],
         ref  |-> [buf |-> id, shape |-> arr.shape]]
  IN  At(FreshBuf(heap))

\* The array a reference shows.
View(heap, ref) ==
  [shape |-> ref.shape,
   px    |-> [p \in Pixels(ref.shape) |-> heap[ref.buf].px[p]]]

\* Buffer ids are identities only.  When a handler returns, the buffers its
\* locals held are freed and the live ones are renumbered 1, 2, ... in the
\* order fabric_img, print_img, result_img: every sharing of storage is
\* kept, the history of allocations is forgotten.
NewId(roots, id) ==
  LET i == CHOOSE n \in 1..Len(roots) :
             roots[n].buf = id /\ \A k \in 1..(n - 1) : roots[k].buf # id
  IN  Cardinality({j \in 1..i : /\ roots[j] # NoRef
                                /\ \A k \in 1..(j - 1) :
                                     roots[k].buf # roots[j].buf})

Moved(roots, ref) ==
  IF ref = NoRef THEN NoRef ELSE [ref EXCEPT !.buf = NewId(roots, ref.buf)]

Settled(heap, roots) ==
  LET live == {roots[n].buf : n \in 1..Len(roots)} \cap DOMAIN heap
  IN  [n \in {NewId(roots, id) : id \in live} |->
         heap[CHOOSE id \in live : NewId(roots, id) = n]]

\* What a call returns: a reference, or the exception it raised.
Returned(ref) == [ok |-> TRUE, ref |-> ref, err |-> ""]

Raised(err) == [ok |-> FALSE, ref |-> NoRef, err |-> err]

\* A function that returns a newly allocated array: the heap it leaves and
\* the reference it returns.
ReturnNew(a) == [heap |-> a.heap, ret |-> Returned(a.ref)]

(***************************************************************************)
(* The file system and OpenCV.  A file is its path (a sequence of          *)
(* characters), the channel layout stored in it and its pixels; OpenCV     *)
(* decodes in B, G, R(, A) order.                                          *)
(***************************************************************************)
LowerCase ==
  [c \in {"P", "N", "G", "J"} |->
     CASE c = "P" -> "p" [] c = "N" -> "n" [] c = "G" -> "g" [] c = "J" -> "j"]

\* str.lower()
lower(path) ==
  [i \in 1..Len(path) |->
     IF path[i] \in DOMAIN LowerCase THEN LowerCase[path[i]] ELSE path[i]]

\* str.endswith(suffix)
endswith(path, suffix) ==
  /\ Len(path) >= Len(suffix)
  /\ SubSeq(path, Len(path) - Len(suffix) + 1, Len(path)) = suffix

NumChannels(layout) ==
  CASE layout = "gray" -> 1 [] layout = "bgr" -> 3 [] layout = "bgra" -> 4

\* cv2.imread(path, cv2.IMREAD_UNCHANGED): the stored layout; a grayscale
\* image decodes to a 2-dimensional array.
imread_unchanged(file) ==
  [shape |-> IF file.layout = "gray" THEN <<file.h, file.w>>
             ELSE <<file.h, file.w, NumChannels(file.layout)>>,
   px    |-> file.px]

\* cv2.imread(path): always 3 channels, B, G, R; gray is replicated and
\* alpha is dropped.
imread(file) ==
  [shape |-> <<file.h, file.w, 3>>,
   px    |-> [p \in Pixels(<<file.h, file.w>>) |->
                IF file.layout = "gray"
                THEN <<file.px[p][1], file.px[p][1], file.px[p][1]>>
                ELSE SubSeq(file.px[p], 1, 3)]]

\* cv2.cvtColor(img, cv2.COLOR_BGR2RGB): 3 channels out, B and R swapped.
COLOR_BGR2RGB(img) ==
  [shape |-> <<img.shape[1], img.shape[2], 3>>,
   px    |-> [p \in Pixels(img.shape) |->
                <<img.px[p][3], img.px[p][2], img.px[p][1]>>]]

\* cv2.cvtColor(img, cv2.COLOR_BGRA2RGBA): B and R swapped, alpha kept.
COLOR_BGRA2RGBA(img) ==
  [shape |-> <<img.shape[1], img.shape[2], 4>>,
   px    |-> [p \in Pixels(img.shape) |->
                <<img.px[p][3], img.px[p][2], img.px[p][1], img.px[p][4]>>]]

load_fabric(heap, file) ==
  ReturnNew(Alloc(heap, COLOR_BGR2RGB(imread(file))))

load_print(heap, file) ==
  LET Converted(print_img) ==
        IF Len(print_img.shape) < 3
        THEN [heap |-> heap, ret |-> Raised("IndexError")]
        ELSE ReturnNew(Alloc(heap, IF print_img.shape[3] = 4
                                   THEN COLOR_BGRA2RGBA(print_img)
                                   ELSE COLOR_BGR2RGB(print_img)))
  IN  IF endswith(lower(file.path), <<"p", "n", "g">>)
           \/ endswith(lower(file.path), <<"P", "N", "G">>)
      THEN Converted(imread_unchanged(file))
      ELSE ReturnNew(Alloc(heap, COLOR_BGR2RGB(imread(file))))

(***************************************************************************)
(* Print Transformer: resize_print and tile_print.                         *)
(***************************************************************************)
\* A Python float with its sign (the scale may be <= 0): -mag if neg.
PyFloat(neg, mag) == [neg |-> neg, mag |-> mag]

\* round(x) of a float x >= 0: to the nearest integer, a tie to the even one.
PyRound(x) ==
  LET Nearest(t, half) ==
        IF half < 0 THEN t
        ELSE IF half > 0 THEN t + 1
        ELSE IF t % 2 = 0 THEN t ELSE t + 1
      From(t) == Nearest(t, FCmp(FSub(x, FFromNat(t)), FDivNat(1, 2)))
  IN  From(FTrunc(x))

\* The product rounded to the nearest integer.
RoundOfProduct(n, x) ==
  IF x.neg THEN 0 - PyRound(FMul(FFromNat(n), x.mag))
  ELSE PyRound(FMul(FFromNat(n), x.mag))

\* int(n * x) for an int n >= 0 and a Python float x: the float64 product,
\* truncated toward zero.
IntOfProduct(n, x) ==
  LET t == FTrunc(FMul(FFromNat(n), x.mag))
  IN  IF x.neg THEN 0 - t ELSE t

\* A resize that raises an empty size to one pixel instead of failing.
cv2_resize_clamped(src, dsize) ==
  [ok  |-> TRUE,
   arr |-> [shape |-> <<Max(dsize[2], 1), Max(dsize[1], 1), src.shape[3]>>,
            px    |-> [p \in Pixels(<<Max(dsize[2], 1), Max(dsize[1], 1)>>) |->
                         src.px[<<(p[1] * src.shape[1]) \div Max(dsize[2], 1),
                                  (p[2] * src.shape[2]) \div Max(dsize[1], 1)>>]]]]

\* cv2.resize(src, (width, height)): a new array of that size with src's
\* channels; cv2.error when the size is empty (width <= 0 or height <= 0).
\* The interpolated pixel values are abstracted to the source pixel each
\* destination pixel falls on (exact when the size does not change).
cv2_resize(src, dsize) ==
  LET width  == dsize[1]
      height == dsize[2]
  IN  IF width <= 0 \/ height <= 0
      THEN [ok |-> FALSE, arr |-> <<>>]
      ELSE [ok  |-> TRUE,
            arr |-> [shape |-> <<height, width, src.shape[3]>>,
                     px    |-> [p \in Pixels(<<height, width>>) |->
                                  src.px[<<(p[1] * src.shape[1]) \div height,
                                           (p[2] * src.shape[2]) \div width>>]]]]

resize_print(heap, print_img, fabric_shape, scale) ==
  LET target_height == IntOfProduct(fabric_shape[1], scale)
      target_width  == IntOfProduct(fabric_shape[2], scale)
      Resized(r) ==
        IF r.ok THEN ReturnNew(Alloc(heap, r.arr))
        ELSE [heap |-> heap, ret |-> Raised("cv2.error")]
  IN  Resized(cv2_resize(View(heap, print_img),
                         <<target_width, target_height>>))

\* The tiles counted with the quotient rounded down.
TilesNeededFloor(h, print_h) == FTrunc(FDivNat(h, print_h))

\* int(np.ceil(h / print_h)): a float64 division, rounded up.
TilesNeeded(h, print_h) == FCeil(FDivNat(h, print_h))

\* np.zeros((canvas_h, canvas_w, channels), dtype=print_img.dtype)
np_zeros(canvas_h, canvas_w, channels) ==
  [shape |-> <<canvas_h, canvas_w, channels>>,
   px    |-> [p \in Pixels(<<canvas_h, canvas_w>>) |-> [c \in 1..channels |-> 0]]]

\* canvas[y_start:y_end, x_start:x_end] = print_img, written into the
\* buffer of canvas.
SliceAssign(heap, canvas, y_start, y_end, x_start, x_end, print_img) ==
  LET Written(src, dst) ==
        [dst EXCEPT !.px =
           [p \in DOMAIN dst.px |->
              IF /\ y_start <= p[1] /\ p[1] < y_end
                 /\ x_start <= p[2] /\ p[2] < x_end
              THEN src.px[<<p[1] - y_start, p[2] - x_start>>]
              ELSE dst.px[p]]]
  IN  [heap EXCEPT ![canvas.buf] =
         Written(View(heap, print_img), heap[canvas.buf])]

\* The two nested loops of tile_print, from iteration k = i * tiles_w + j on.
RECURSIVE TileFrom(_, _, _, _, _, _)
TileFrom(heap, canvas, print_img, k, tiles_h, tiles_w) ==
  IF k >= tiles_h * tiles_w THEN heap
  ELSE LET i       == k \div tiles_w
           j       == k % tiles_w
           print_h == print_img.shape[1]
           print_w == print_img.shape[2]
           y_start == i * print_h
           y_end   == (i + 1) * print_h
           x_start == j * print_w
           x_end   == (j + 1) * print_w
       IN  TileFrom(SliceAssign(heap, canvas, y_start, y_end, x_start, x_end,
                                print_img),
                    canvas, print_img, k + 1, tiles_h, tiles_w)

\* The canvas returned whole.
NoCrop(canvas, h, w) == [buf |-> canvas.buf, shape |-> canvas.shape]

\* canvas[:h, :w]: a view of the canvas's buffer (a slice is clipped to the
\* array).
Crop(canvas, h, w) ==
  [buf   |-> canvas.buf,
   shape |-> <<Min(h, canvas.shape[1]), Min(w, canvas.shape[2]),
               canvas.shape[3]>>]

tile_print(heap, print_img, fabric_shape) ==
  LET h        == fabric_shape[1]
      w        == fabric_shape[2]
      print_h  == print_img.shape[1]
      print_w  == print_img.shape[2]
      Tiled(tiles_h, tiles_w) ==
        LET canvas_h == tiles_h * print_h
            canvas_w == tiles_w * print_w
            Filled(a) ==
              [heap |-> TileFrom(a.heap, a.ref, print_img, 0, tiles_h, tiles_w),
               ret  |-> Returned(Crop(a.ref, h, w))]
        IN  Filled(Alloc(heap, np_zeros(canvas_h, canvas_w,
                                        IF print_img.shape[3] = 4
                                        THEN 4 ELSE 3)))
  IN  Tiled(TilesNeeded(h, print_h), TilesNeeded(w, print_w))

(***************************************************************************)
(* Blend Engine: blend_images, channel by channel in float64.              *)
(***************************************************************************)
One == FFromNat(1)

Two == FFromNat(2)

Half == FDivNat(1, 2)

Scale255 == FFromNat(MaxChan)

\* x / 255.0 for each 8-bit value x
Normalized == [x \in 0..MaxChan |-> FDivNat(x, MaxChan)]

Normalize(x) == Normalized[x]

\* low = 2 * fabric_norm * print_norm;
\* high = 1 - 2 * (1 - fabric_norm) * (1 - print_norm);
\* np.where(fabric_norm < 0.5, low, high)
OverlayBlend(fabric_norm, print_norm) ==
  IF FCmp(fabric_norm, Half) < 0
  THEN FMul(FMul(Two, fabric_norm), print_norm)
  ELSE FSub(One, FMul(FMul(Two, FSub(One, fabric_norm)), FSub(One, print_norm)))

MultiplyBlend(fabric_norm, print_norm) == FMul(fabric_norm, print_norm)

ScreenBlend(fabric_norm, print_norm) ==
  FSub(One, FMul(FSub(One, fabric_norm), FSub(One, print_norm)))

\* The else branch falling back to multiply.
DefaultMultiply(fabric_norm, print_norm) == FMul(fabric_norm, print_norm)

\* The else branch: "Default to overlay".
DefaultBlend(fabric_norm, print_norm) ==
  IF FCmp(fabric_norm, Half) < 0
  THEN FMul(FMul(Two, fabric_norm), print_norm)
  ELSE FSub(One, FMul(FMul(Two, FSub(One, fabric_norm)), FSub(One, print_norm)))

Blended(fabric_norm, print_norm, blend_mode) ==
  IF blend_mode = "overlay" THEN OverlayBlend(fabric_norm, print_norm)
  ELSE IF blend_mode = "multiply" THEN MultiplyBlend(fabric_norm, print_norm)
  ELSE IF blend_mode = "screen" THEN ScreenBlend(fabric_norm, print_norm)
  ELSE DefaultBlend(fabric_norm, print_norm)

\* The alpha scaled by 256 instead of 255.
PrintAlphaOver256(alpha, opacity) ==
  FMul(FDivNat(alpha, MaxChan + 1), opacity)

\* print_alpha = print_img[:, :, 3:4] / 255.0 * opacity
PrintAlpha(alpha, opacity) == FMul(Normalize(alpha), opacity)

\* The two weights exchanged.
CompositeSwapped(fabric_norm, blended, strength) ==
  FAdd(FMul(fabric_norm, strength), FMul(blended, FSub(One, strength)))

\* result = fabric_norm * (1 - strength) + blended * strength, where strength
\* is print_alpha (has_alpha) or opacity.
Composite(fabric_norm, blended, strength) ==
  FAdd(FMul(fabric_norm, FSub(One, strength)), FMul(blended, strength))

\* (result * 255).astype(np.uint8): truncation toward zero, 8 bits kept.
ToUint8(result) == FTrunc(FMul(result, Scale255)) % (MaxChan + 1)

\* has_alpha is false: the print has no fourth channel.
NoAlpha == 0 - 1

\* One channel of one pixel of blend_images: the fabric's and the print's
\* 8-bit values and the print's alpha at that pixel (NoAlpha without one).
BlendChannel(fabric_c, print_c, alpha, blend_mode, opacity) ==
  LET has_alpha == alpha # NoAlpha
      Result(fabric_norm, print_norm) ==
        ToUint8(Composite(fabric_norm,
                          Blended(fabric_norm, print_norm, blend_mode),
                          IF has_alpha THEN PrintAlpha(alpha, opacity)
                          ELSE opacity))
  IN  Result(Normalize(fabric_c), Normalize(print_c))

\* 8-bit values the stored images are made of.
ChanSamples == <<0, 255, 128, 1, 64, 200>>

AlphaSamples == <<255, 0, 128>>

Range(seq) == {seq[i] : i \in 1..Len(seq)}

\* The float64 nearest to k / 10
Tenths(k) == FDivNat(k, 10)

\* The widget settings tried in the application, <<blend mode, opacity,
\* scale>> with opacity and scale in tenths, within the sliders' ranges
\* (0.1 .. 1.0 and 0.2 .. 2.0): the defaults, and the other modes with the
\* sliders moved.
AppSettings ==
  {<<"overlay", 7, 10>>, <<"multiply", 10, 5>>, <<"screen", 1, 15>>,
   <<"overlay", 10, 2>>}

AppBlendModes == {k[1] : k \in AppSettings}

AppOpacities == {k[2] : k \in AppSettings}

\* BlendChannel on the values the stored images and the application's
\* widgets take, computed once.
BlendMemoKeys ==
  Range(ChanSamples) \X Range(ChanSamples)
    \X (Range(AlphaSamples) \cup {NoAlpha})
    \X AppBlendModes \X {Tenths(k) : k \in AppOpacities}

BlendMemo ==
  [k \in BlendMemoKeys |-> BlendChannel(k[1], k[2], k[3], k[4], k[5])]

BlendValue(fabric_c, print_c, alpha, blend_mode, opacity) ==
  IF <<fabric_c, print_c, alpha, blend_mode, opacity>> \in BlendMemoKeys
  THEN BlendMemo[<<fabric_c, print_c, alpha, blend_mode, opacity>>]
  ELSE BlendChannel(fabric_c, print_c, alpha, blend_mode, opacity)

\* numpy broadcasting of one dimension: equal, or one of them 1.
Broadcastable(n, m) == n = m \/ n = 1 \/ m = 1

BroadcastIndex(i, n) == IF n = 1 THEN 0 ELSE i

\* The arithmetic of blend_images on the arrays f and p: every operand is
\* broadcast to the common shape, 3 channels come out.  ValueError when the
\* heights or the widths cannot be broadcast.
BlendArrays(f, p, blend_mode, opacity) ==
  LET Channels(fq, pq) ==
        [c \in 1..3 |->
           BlendValue(fq[c], pq[c], IF Len(pq) = 4 THEN pq[4] ELSE NoAlpha,
                      blend_mode, opacity)]
  IN  IF ~(/\ Broadcastable(f.shape[1], p.shape[1])
           /\ Broadcastable(f.shape[2], p.shape[2]))
      THEN [ok |-> FALSE, arr |-> <<>>]
      ELSE [ok  |-> TRUE,
            arr |-> [shape |-> <<Max(f.shape[1], p.shape[1]),
                                 Max(f.shape[2], p.shape[2]), 3>>,
                     px    |-> [q \in Pixels(<<Max(f.shape[1], p.shape[1]),
                                               Max(f.shape[2], p.shape[2])>>) |->
                                  Channels(
                                    f.px[<<BroadcastIndex(q[1], f.shape[1]),
                                           BroadcastIndex(q[2], f.shape[2])>>],
                                    p.px[<<BroadcastIndex(q[1], p.shape[1]),
                                           BroadcastIndex(q[2], p.shape[2])>>])]]]

\* A blend that writes its result into the fabric's buffer and returns the
\* fabric.
blend_images_inplace(heap, fabric, print_img, blend_mode, opacity) ==
  LET Result(r) ==
        IF r.ok
        THEN [heap |-> [heap EXCEPT ![fabric.buf] = r.arr],
              ret  |-> Returned([buf |-> fabric.buf, shape |-> r.arr.shape])]
        ELSE [heap |-> heap, ret |-> Raised("ValueError")]
  IN  Result(BlendArrays(View(heap, fabric), View(heap, print_img),
                         blend_mode, opacity))

\* Every numpy expression of blend_images makes a new array; the one
\* returned is the array astype(np.uint8) made.
blend_images(heap, fabric, print_img, blend_mode, opacity) ==
  LET Result(r) ==
        IF r.ok THEN ReturnNew(Alloc(heap, r.arr))
        ELSE [heap |-> heap, ret |-> Raised("ValueError")]
  IN  Result(BlendArrays(View(heap, fabric), View(heap, print_img),
                         blend_mode, opacity))

(***************************************************************************)
(* Fusion Orchestrator: resize, tile, blend; an exception of a step leaves *)
(* generate_fusion at once.  print_tiled is the local handed to            *)
(* blend_images (NoRef when blend_images was not reached).                 *)
(***************************************************************************)
generate_fusion(heap, fabric_img, print_img, blend_mode, opacity, scale) ==
  LET Blend(print_tiled) ==
        LET Done(result) ==
              [heap        |-> result.heap,
               ret         |-> result.ret,
               print_tiled |-> print_tiled.ret.ref]
        IN  Done(blend_images(print_tiled.heap, fabric_img,
                              print_tiled.ret.ref, blend_mode, opacity))
      Tile(print_resized) ==
        IF ~print_resized.ret.ok
        THEN [heap        |-> print_resized.heap,
              ret         |-> print_resized.ret,
              print_tiled |-> NoRef]
        ELSE Blend(tile_print(print_resized.heap, print_resized.ret.ref,
                              fabric_img.shape))
  IN  Tile(resize_print(heap, print_img, fabric_img.shape, scale))

(***************************************************************************)
(* The bounds of the model and the inputs drawn within them.               *)
(***************************************************************************)
\* Fabric files on disk (the first NumFabrics entries of FabricShapes).
NumFabrics == 2

\* Largest height and width of the rasters handed to tile_print and
\* resize_print on their own.
MaxDim == 3

\* Opacities handed to blend_images on its own: 0, 1 and the steps between.
OpacitySteps == 2

\* Print colours handed to blend_images on its own (the first
\* NumPrintColours entries of PrintColours).
NumPrintColours == 3

\* Scales handed to resize_print on its own are drawn in tenths, from 0.1 up
\* to this many tenths.
MaxScaleTenths == 20

OpacityValue(k) == Tenths(k)

ScaleValue(k) == PyFloat(k < 0, Tenths(IF k < 0 THEN 0 - k ELSE k))

StoredPixel(seed, layout, y, x) ==
  [c \in 1..NumChannels(layout) |->
     IF c = 4
     THEN AlphaSamples[((seed + y + x) % Len(AlphaSamples)) + 1]
     ELSE ChanSamples[((seed + 3 * y + 5 * x + c) % Len(ChanSamples)) + 1]]

ImageFile(path, layout, h, w, seed) ==
  [path |-> path, layout |-> layout, h |-> h, w |-> w,
   px   |-> [p \in Pixels(<<h, w>>) |-> StoredPixel(seed, layout, p[1], p[2])]]

FabricShapes == <<<<2, 3>>, <<1, 2>>, <<3, 1>>, <<2, 2>>>>

FabricFiles ==
  {ImageFile(<<"f", ".", "j", "p", "g">>, "bgr",
             FabricShapes[i][1], FabricShapes[i][2], i) :
     i \in 1..Min(NumFabrics, Len(FabricShapes))}

PrintFiles ==
  {ImageFile(<<"a", ".", "j", "p", "g">>, "bgr", 2, 2, 1),
   ImageFile(<<"b", ".", "p", "n", "g">>, "bgra", 1, 2, 2),
   ImageFile(<<"c", ".", "P", "N", "G">>, "bgr", 2, 1, 3),
   ImageFile(<<"d", ".", "p", "n", "g">>, "gray", 2, 2, 4)}

(***************************************************************************)
(* The application: SimpleFabricFusionGUI.  An attribute that is not set   *)
(* yet (hasattr is false) holds NoRef.  call records the last handler run: *)
(* its name, how it ended and, for generate_fusion, the parameters read    *)
(* from the widgets and the shape of the tiled print handed to             *)
(* blend_images.  No handler catches an exception: one raised by the core  *)
(* ends the handler where it is, before the attribute is assigned.         *)
(* fabric_path and print_path are written and never read, and save_result  *)
(* and display_image change nothing kept here; they are left out.          *)
(***************************************************************************)
VARIABLES heap, fabric_img, print_img, result_img, call

vars == <<heap, fabric_img, print_img, result_img, call>>

gui == <<fabric_img, print_img, result_img>>

NoCall == [op |-> "none"]

\* SimpleFabricFusionGUI.__init__
InitGUI ==
  /\ fabric_img = NoRef
  /\ print_img = NoRef
  /\ result_img = NoRef

Init ==
  /\ InitGUI
  /\ heap = EmptyHeap
  /\ call = NoCall

\* A handler returns with these attributes and this heap.
Return(h, f, p, r) ==
  LET Kept(roots) ==
        /\ heap' = Settled(h, roots)
        /\ fabric_img' = Moved(roots, f)
        /\ print_img' = Moved(roots, p)
        /\ result_img' = Moved(roots, r)
  IN  Kept(<<f, p, r>>)

SelectFabric(file) ==
  LET Loaded(r) ==
        /\ Return(r.heap, r.ret.ref, print_img, result_img)
        /\ call' = [op |-> "select_fabric", outcome |-> "ok",
                    path |-> file.path]
  IN  Loaded(load_fabric(heap, file))

SelectPrint(file) ==
  LET Loaded(r) ==
        /\ Return(r.heap, fabric_img,
                  IF r.ret.ok THEN r.ret.ref ELSE print_img, result_img)
        /\ call' = [op |-> "select_print",
                    outcome |-> IF r.ret.ok THEN "ok" ELSE r.ret.err,
                    path |-> file.path,
                    decoded |-> NumChannels(file.layout)]
  IN  Loaded(load_print(heap, file))

\* askopenfilename returned "": nothing is loaded.
CancelDialog == UNCHANGED vars

GenerateWarning ==
  /\ fabric_img = NoRef \/ print_img = NoRef
  /\ call' = [op |-> "generate_fusion", outcome |-> "warning"]
  /\ UNCHANGED <<heap, gui>>

GenerateFusion(blend_mode, opacity, scale) ==
  LET Generated(r) ==
        /\ Return(r.heap, fabric_img, print_img,
                  IF r.ret.ok THEN r.ret.ref ELSE result_img)
        /\ call' = [op |-> "generate_fusion",
                    outcome |-> IF r.ret.ok THEN "ok" ELSE r.ret.err,
                    blend_mode |-> blend_mode,
                    opacity |-> opacity,
                    scale |-> scale,
                    print_tiled |-> r.print_tiled.shape]
  IN  /\ fabric_img # NoRef
      /\ print_img # NoRef
      /\ Generated(generate_fusion(heap, fabric_img, print_img, blend_mode,
                                   OpacityValue(opacity), ScaleValue(scale)))

Next ==
  \/ \E file \in FabricFiles : SelectFabric(file)
  \/ \E file \in PrintFiles : SelectPrint(file)
  \/ CancelDialog
  \/ GenerateWarning
  \/ \E k \in AppSettings : GenerateFusion(k[1], k[2], k[3])

Spec == Init /\ [][Next]_vars


\* generate_fusion ran to the call of the core (both images were selected).
Fused(c) == c.op = "generate_fusion" /\ c.outcome # "warning"

\* C2: for every fabric of H x W, every 3- or 4-channel print and every scale
\* at which resize_print succeeds, the tiled print handed to blend_images has
\* the fabric's height and width, no shape mismatch arises, and the raster
\* returned has height H, width W and exactly 3 channels.
C2_FusionHasFabricShape ==
  (Fused(call) /\ call.outcome # "cv2.error") =>
    /\ call.outcome = "ok"
    /\ call.print_tiled[1] = fabric_img.shape[1]
    /\ call.print_tiled[2] = fabric_img.shape[2]
    /\ result_img.shape = <<fabric_img.shape[1], fabric_img.shape[2], 3>>
    /\ heap[result_img.buf].shape = result_img.shape
    /\ \A p \in Pixels(fabric_img.shape) : Len(View(heap, result_img).px[p]) = 3

\* A print with an alpha channel, enlarged, so that the tiled canvas is
\* cropped.
C2_Witness ==
  /\ Fused(call)
  /\ call.outcome = "ok"
  /\ call.scale > 10
  /\ print_img.shape[3] = 4
  /\ call.print_tiled[3] = 4
  /\ result_img.shape[3] = 3

\* Scales <= 0 (in tenths) handed to the core.
NonPositiveScales == {0 - MaxScaleTenths, 0 - 1, 0}

\* The scaled height or width is 0: target * scale < 1, scale in tenths.
ScalesToNothing(shape, scale) == shape[1] * scale < 10 \/ shape[2] * scale < 10

\* The core's generate_fusion stopped in resize_print: nothing was tiled or
\* blended, no raster was made.
FailedInResize(r) ==
  /\ ~r.ret.ok
  /\ r.ret.err = "cv2.error"
  /\ r.ret.ref = NoRef
  /\ r.print_tiled = NoRef
  /\ r.heap = heap

\* C4: generate_fusion with a scale <= 0, or with a scale at which the scaled
\* height or width is 0, fails with an error and returns no raster: nothing
\* is tiled or blended, and the result stored by an earlier successful
\* generate is left as it was.
C4_DegenerateScaleFails ==
  [][/\ (fabric_img # NoRef /\ print_img # NoRef) =>
          \A scale \in NonPositiveScales, k \in AppSettings :
            FailedInResize(generate_fusion(heap, fabric_img, print_img, k[1],
                                           OpacityValue(k[2]),
                                           ScaleValue(scale)))
     /\ (Fused(call') /\ ScalesToNothing(fabric_img.shape, call'.scale)) =>
          /\ call'.outcome = "cv2.error"
          /\ call'.print_tiled = NoRef.shape
          /\ result_img' = result_img
          /\ result_img # NoRef =>
               View(heap', result_img') = View(heap, result_img)]_vars

\* A generate that failed on a scaled height of 0 while an earlier result is
\* stored.
C4_Witness ==
  /\ Fused(call)
  /\ call.outcome = "cv2.error"
  /\ call.scale > 0
  /\ result_img # NoRef
  /\ View(heap, result_img).shape[3] = 3

\* C8, as the spec states it: load_print on a path ending in png, in either
\* case, returns a 4-channel raster when the decoded image has 4 channels and
\* a 3-channel raster for every other decoded layout, never failing.
C8_PngAlwaysLoads ==
  (/\ call.op = "select_print"
   /\ endswith(lower(call.path), <<"p", "n", "g">>)) =>
    /\ call.outcome = "ok"
    /\ print_img.shape[3] = (IF call.decoded = 4 THEN 4 ELSE 3)

\* C9: generate_fusion never changes its inputs, whatever the mode, opacity
\* and scale and whether it succeeds or fails: the fabric and the print hold
\* after the call the pixels they held before it, the raster returned shares
\* no storage with either, and a call repeated on the same inputs with the
\* same parameters returns the same output.
C9_InputsAreNotMutated ==
  [][Fused(call') =>
       /\ View(heap', fabric_img') = View(heap, fabric_img)
       /\ View(heap', print_img') = View(heap, print_img)
       /\ call'.outcome = "ok" =>
            /\ result_img'.buf \notin {fabric_img'.buf, print_img'.buf}
            /\ result_img'.buf \in DOMAIN heap'
       /\ (/\ Fused(call)
           /\ call.outcome = "ok"
           /\ call'.outcome = "ok"
           /\ call'.blend_mode = call.blend_mode
           /\ call'.opacity = call.opacity
           /\ call'.scale = call.scale) =>
            View(heap', result_img') = View(heap, result_img)]_vars

\* A second successful generate after a first one, with other parameters: the
\* result differs from the fabric, which is as it was loaded.
C9_Witness ==
  /\ Fused(call)
  /\ call.outcome = "ok"
  /\ call.blend_mode = "multiply"
  /\ result_img.buf \notin {fabric_img.buf, print_img.buf}
  /\ View(heap, result_img).px # View(heap, fabric_img).px
  /\ \E file \in FabricFiles :
       View(heap, fabric_img) = COLOR_BGR2RGB(imread(file))

(***************************************************************************)
(* The functions of the core on their own.  A specification below starts   *)
(* with the arguments of one call in call (op = "args"), the rasters among *)
(* them in the heap, and has the one action that makes the call and        *)
(* records what it returned.  The GUI's attributes stay unset.             *)
(***************************************************************************)
\* A raster whose pixels all differ: the channel values tell the row, the
\* column and the channel.
Raster(h, w, channels) ==
  [shape |-> <<h, w, channels>>,
   px    |-> [p \in Pixels(<<h, w>>) |->
                [c \in 1..channels |-> 50 * p[1] + 10 * p[2] + c]]]

Dims == 1..MaxDim

ArgsOfTile(a, h, w) ==
  /\ heap = a.heap
  /\ call = [op |-> "args", print_img |-> a.ref, fabric_shape |-> <<h, w, 3>>]

InitTile ==
  /\ InitGUI
  /\ \E print_h \in Dims, print_w \in Dims, channels \in {3, 4}, h \in Dims,
        w \in Dims :
       ArgsOfTile(Alloc(EmptyHeap, Raster(print_h, print_w, channels)), h, w)

TilePrint ==
  LET Tiled(r) ==
        /\ heap' = r.heap
        /\ call' = [op |-> "tile_print", print_img |-> call.print_img,
                    fabric_shape |-> call.fabric_shape, ret |-> r.ret.ref]
  IN  /\ call.op = "args"
      /\ Tiled(tile_print(heap, call.print_img, call.fabric_shape))
      /\ UNCHANGED gui

NextTile == TilePrint

SpecTile == InitTile /\ [][NextTile]_vars

\* C1: tile_print returns, for a fabric of H x W and a print of ph x pw with
\* 3 or 4 channels, a raster of exactly H rows, W columns and the print's
\* channels, whose pixel at (y, x) is the print's pixel at (y mod ph,
\* x mod pw); also when ph > H or pw > W.
C1_TileIsPeriodic ==
  call.op = "tile_print" =>
    LET H     == call.fabric_shape[1]
        W     == call.fabric_shape[2]
        ph    == call.print_img.shape[1]
        pw    == call.print_img.shape[2]
        print == Raster(ph, pw, call.print_img.shape[3])
        out   == View(heap, call.ret)
    IN  /\ out.shape = <<H, W, call.print_img.shape[3]>>
        /\ DOMAIN out.px = (0..(H - 1)) \X (0..(W - 1))
        /\ \A y \in 0..(H - 1), x \in 0..(W - 1) :
             out.px[<<y, x>>] = print.px[<<y % ph, x % pw>>]

\* A print taller than the fabric (cropped) and narrower than it (repeated).
C1_Witness ==
  /\ call.op = "tile_print"
  /\ call.print_img.shape[1] > call.fabric_shape[1]
  /\ 2 * call.print_img.shape[2] <= call.fabric_shape[2]
  /\ call.print_img.shape[3] = 4
  /\ View(heap, call.ret).shape[3] = 4

ArgsOfResize(a, h, w, scale) ==
  /\ heap = a.heap
  /\ call = [op |-> "args", print_img |-> a.ref, fabric_shape |-> <<h, w, 3>>,
             scale |-> scale]

InitResize ==
  /\ InitGUI
  /\ \E print_h \in Dims, print_w \in Dims, channels \in {3, 4}, h \in Dims,
        w \in Dims, scale \in 1..MaxScaleTenths :
       ArgsOfResize(Alloc(EmptyHeap, Raster(print_h, print_w, channels)),
                    h, w, scale)

ResizePrint ==
  LET Resized(r) ==
        /\ heap' = r.heap
        /\ call' = [op |-> "resize_print", print_img |-> call.print_img,
                    fabric_shape |-> call.fabric_shape, scale |-> call.scale,
                    ret |-> r.ret]
  IN  /\ call.op = "args"
      /\ Resized(resize_print(heap, call.print_img, call.fabric_shape,
                              ScaleValue(call.scale)))
      /\ UNCHANGED gui

NextResize == ResizePrint

SpecResize == InitResize /\ [][NextResize]_vars

\* The integer n with n <= target * scale < n + 1, the product being the
\* float64 one.
IsTruncated(n, target, scale) ==
  LET Between(product) ==
        /\ FCmp(FFromNat(n), product) <= 0
        /\ FCmp(product, FFromNat(n + 1)) < 0
  IN  /\ 10 * (n - 1) <= target * scale
      /\ target * scale <= 10 * (n + 2)
      /\ Between(FMul(FFromNat(target), Tenths(scale)))

\* C3, as the code has it: for every target height and width and every
\* scale > 0, resize_print asks for the height and the width that are the
\* products target * scale truncated toward zero (not rounded); when both
\* are at least 1 the resized print has them and the input's channel count,
\* and when one of them is 0 the call fails.
C3_ResizeTruncates ==
  call.op = "resize_print" =>
    \E th \in 0..(MaxDim * MaxScaleTenths) :
      /\ IsTruncated(th, call.fabric_shape[1], call.scale)
      /\ \E tw \in 0..(MaxDim * MaxScaleTenths) :
           /\ IsTruncated(tw, call.fabric_shape[2], call.scale)
           /\ IF th >= 1 /\ tw >= 1
              THEN /\ call.ret.ok
                   /\ call.ret.ref.shape = <<th, tw, call.print_img.shape[3]>>
                   /\ DOMAIN View(heap, call.ret.ref).px = Pixels(<<th, tw>>)
              ELSE ~call.ret.ok /\ call.ret.err = "cv2.error"

\* A height of 3 at scale 0.5: 1.5 is truncated to 1, where rounding gives 2.
C3_Witness ==
  /\ call.op = "resize_print"
  /\ call.fabric_shape[1] = 3
  /\ call.scale = 5
  /\ call.ret.ok
  /\ call.ret.ref.shape[1] = 1
  /\ call.print_img.shape[3] = 4

\* C3 as the spec states it: the resized print has height
\* round(target_h * scale) and width round(target_w * scale), both at least
\* 1, and the input's channel count.
C3_ResizeRounds ==
  call.op = "resize_print" =>
    /\ call.ret.ok
    /\ call.ret.ref.shape =
         <<RoundOfProduct(call.fabric_shape[1], ScaleValue(call.scale)),
           RoundOfProduct(call.fabric_shape[2], ScaleValue(call.scale)),
           call.print_img.shape[3]>>
    /\ call.ret.ref.shape[1] >= 1
    /\ call.ret.ref.shape[2] >= 1

\* A third of the 8-bit range: a fabric pixel <<v, v + Third, v + 2 * Third>>
\* with v in 0 .. MaxChan - 2 * Third takes every 8-bit value in one of its
\* channels.
Third == (MaxChan + 1) \div 3

FabricPixels == {<<v, v + Third, v + 2 * Third>> : v \in 0..(MaxChan - 2 * Third)}

\* Solid white, solid black, and colours between.
PrintColours ==
  <<<<255, 255, 255>>, <<0, 0, 0>>, <<200, 64, 1>>, <<127, 128, 30>>,
    <<254, 2, 100>>>>

PrintPixels ==
  {PrintColours[i] : i \in 1..Min(NumPrintColours, Len(PrintColours))}

\* Alpha values of the print's pixel; without an alpha channel, NoAlpha.
PrintAlphas == {NoAlpha, 0, 128, 255}

\* The modes of the application and a mode string that is none of them.
BlendModes == {"overlay", "multiply", "screen", "soft-light"}

\* Opacities in tenths.
BlendOpacities == {(10 * i) \div OpacitySteps : i \in 0..OpacitySteps}

Solid(pixel) == [shape |-> <<1, 1, Len(pixel)>>, px |-> [p \in {<<0, 0>>} |-> pixel]]

WithAlpha(rgb, alpha) == IF alpha = NoAlpha THEN rgb ELSE Append(rgb, alpha)

ArgsOfBlend(f, p, blend_mode, opacity) ==
  /\ heap = p.heap
  /\ call = [op |-> "args", fabric |-> f.ref, print_img |-> p.ref,
             blend_mode |-> blend_mode, opacity |-> opacity,
             fabric_px |-> View(f.heap, f.ref).px[<<0, 0>>],
             print_px |-> View(p.heap, p.ref).px[<<0, 0>>]]

InitBlend ==
  LET Loaded(f, rgb, alpha, blend_mode, opacity) ==
        ArgsOfBlend(f, Alloc(f.heap, Solid(WithAlpha(rgb, alpha))),
                    blend_mode, opacity)
  IN  /\ InitGUI
      /\ \E fabric_px \in FabricPixels, rgb \in PrintPixels,
            alpha \in PrintAlphas, blend_mode \in BlendModes,
            opacity \in BlendOpacities :
           Loaded(Alloc(EmptyHeap, Solid(fabric_px)), rgb, alpha, blend_mode,
                  opacity)

BlendImages ==
  LET Blent(r) ==
        /\ heap' = r.heap
        /\ call' = [call EXCEPT !.op = "blend_images"] @@ [ret |-> r.ret]
  IN  /\ call.op = "args"
      /\ Blent(blend_images(heap, call.fabric, call.print_img, call.blend_mode,
                            OpacityValue(call.opacity)))
      /\ UNCHANGED gui

NextBlend == BlendImages

SpecBlend == InitBlend /\ [][NextBlend]_vars

\* The pixel blend_images returned.
BlendOutput == View(heap, call.ret.ref).px[<<0, 0>>]

HasAlpha == Len(call.print_px) = 4

\* The pixel blend_images computes from the fabric pixel of the call and a
\* print pixel, in a mode and at an opacity.
BlendOf(print_px, blend_mode, opacity) ==
  BlendArrays(Solid(call.fabric_px), Solid(print_px), blend_mode,
              OpacityValue(opacity)).arr.px[<<0, 0>>]

Distance(a, b) == IF a >= b THEN a - b ELSE b - a

\* C5: with zero effective strength blend_images returns the fabric, in
\* every blend mode and for all 8-bit channel values: (i) with a 3-channel
\* print and opacity 0 every output channel is within 1 of the fabric's,
\* (ii) with a 4-channel print whose alpha is 0 the output equals the fabric
\* at any opacity.
C5_ZeroStrengthKeepsFabric ==
  call.op = "blend_images" =>
    /\ call.ret.ok
    /\ (~HasAlpha /\ call.opacity = 0) =>
         \A c \in 1..3 : Distance(BlendOutput[c], call.fabric_px[c]) <= 1
    /\ (HasAlpha /\ call.print_px[4] = 0) => BlendOutput = call.fabric_px

\* An invisible white print, screened at full opacity over a fabric it would
\* otherwise change.
C5_Witness ==
  /\ call.op = "blend_images"
  /\ HasAlpha
  /\ call.print_px = <<255, 255, 255, 0>>
  /\ call.blend_mode = "screen"
  /\ call.opacity = 10
  /\ call.fabric_px[1] = 1
  /\ BlendOutput = call.fabric_px
  /\ BlendOf(<<255, 255, 255>>, "screen", 10) # call.fabric_px

\* C6: a print whose alpha is 255 blends like the 3-channel print with the
\* same RGB values at the same opacity, in every mode, at every opacity and
\* for all 8-bit values.
C6_OpaqueAlphaIsNoAlpha ==
  (call.op = "blend_images" /\ HasAlpha /\ call.print_px[4] = 255) =>
    /\ call.ret.ok
    /\ BlendOutput =
         BlendOf(SubSeq(call.print_px, 1, 3), call.blend_mode, call.opacity)

\* An opaque print at half opacity that changes the fabric.
C6_Witness ==
  /\ call.op = "blend_images"
  /\ HasAlpha
  /\ call.print_px[4] = 255
  /\ call.opacity > 0
  /\ call.opacity < 10
  /\ call.blend_mode = "overlay"
  /\ \A c \in 1..3 : BlendOutput[c] # call.fabric_px[c]

\* C7, as the spec states it: at opacity 1.0 a solid white 3-channel print in
\* multiply mode, and a solid black 3-channel print in screen mode, output
\* exactly the fabric's value v, for every 8-bit v.
C7_NeutralPrintsKeepFabric ==
  (/\ call.op = "blend_images"
   /\ ~HasAlpha
   /\ call.opacity = 10
   /\ \/ call.blend_mode = "multiply" /\ call.print_px = <<255, 255, 255>>
      \/ call.blend_mode = "screen" /\ call.print_px = <<0, 0, 0>>) =>
    BlendOutput = call.fabric_px

\* C10: with a mode string that is none of overlay, multiply and screen,
\* blend_images does not fail and returns what it returns in overlay mode for
\* the same fabric, print and opacity.
C10_UnknownModeIsOverlay ==
  (/\ call.op = "blend_images"
   /\ call.blend_mode \notin {"overlay", "multiply", "screen"}) =>
    /\ call.ret.ok
    /\ BlendOutput = BlendOf(call.print_px, "overlay", call.opacity)

\* An unknown mode whose output is neither the fabric nor what multiply or
\* screen give.
C10_Witness ==
  /\ call.op = "blend_images"
  /\ call.blend_mode = "soft-light"
  /\ call.opacity = 10
  /\ BlendOutput # call.fabric_px
  /\ BlendOutput # BlendOf(call.print_px, "multiply", call.opacity)
  /\ BlendOutput # BlendOf(call.print_px, "screen", call.opacity)

====
